---- MODULE Spec2Model ----
(***************************************************************************)
(* A model of the OpenAI/Groq request-tracking proxy of src/main.py: the   *)
(* three handlers (OPTIONS /{path}, GET /models, POST /{path}), the audit  *)
(* log writer they share, the upstream servers they call and the clock.    *)
(* A handler is cut into one action per stretch of code between two        *)
(* suspension points (await request.json(), await client.post/get, each    *)
(* pull of the streaming generator); save_request_response has no await    *)
(* of its own, so it runs inside the action that calls it.                 *)
(***************************************************************************)
EXTENDS Integers, Sequences, FiniteSets, TLC

(* ------------------------------ bounds -------------------------------- *)

\* The wall clock stops advancing at this many ticks.
MaxClock == 2

\* Longest upstream stream, in chunks.
MaxChunks == 2

\* Longest model catalog the default upstream returns.
MaxCatalog == 2

\* Clock ticks per millisecond: the clock is finer than the timestamp.
TicksPerMs == 2

(* ------------------------- program constants -------------------------- *)

OPENAI_BASE_URL == "https://api.openai.com/v1"

GROQ_BASE_URL == "https://api.groq.com/openai/v1"

\* The value of the environment variable OPENAI_API_KEY.
OPENAI_API_KEY == "env:OPENAI_API_KEY"

\* The value of the environment variable GROQ_API_KEY.
GROQ_API_KEY == "env:GROQ_API_KEY"

ALT_MODEL == "qwen-2.5-coder-32b"

\* time.time() * 1000: milliseconds per second.
MsPerSec == 1000

(* ---------------------------- JSON values ----------------------------- *)

\* A scalar is its type and its text; Absent is a key the object lacks.
JStr(s) == [t |-> "str", v |-> s]

JTrue == [t |-> "bool", v |-> "true"]

JFalse == [t |-> "bool", v |-> "false"]

JOne == [t |-> "num", v |-> "1"]

JNull == [t |-> "null", v |-> "null"]

Absent == [t |-> "absent", v |-> ""]

\* dict.get(key): None when the key is missing.
Get(obj, key) == IF obj[key] = Absent THEN JNull ELSE obj[key]

\* Python's `x == y` on scalars: True == 1 and False == 0 across bool and int.
PyNum(v) ==
  IF v = JTrue THEN JOne ELSE IF v = JFalse THEN [t |-> "num", v |-> "0"] ELSE v

PyEq(v, w) == PyNum(v) = PyNum(w)

\* `x == True` in place of `x is True`.
EqualsTrue(v) == PyEq(v, JTrue)

\* Python's `x is True`: identity with the bool singleton.
IsTrue(v) == v = JTrue

(* ------------------------------- paths -------------------------------- *)

\* A path is the sequence of its segments and separators.
PathModels == <<"models">>

PathChat == <<"chat", "/", "completions">>

PathChatUnderscore == <<"chat", "_", "completions">>

Paths == {PathModels, PathChat, PathChatUnderscore}

\* endpoint.replace('/', '_')
Replace(path) == [i \in DOMAIN path |-> IF path[i] = "/" THEN "_" ELSE path[i]]

\* f"{base_url}/{path}"
Url(base_url, path) == <<base_url, "/">> \o path

(* ------------------------------ inputs -------------------------------- *)

Models == {Absent, JStr(ALT_MODEL), JStr("gpt-4")}

Streams == {Absent, JTrue, JFalse, JOne, JStr("true")}

\* The JSON objects a caller sends: only `model` and `stream` are looked at.
Objects == [t : {"object"}, model : Models, stream : Streams]

\* request_data={}
EmptyObject == [t |-> "object"]

\* A JSON document that is not an object.
JArray == [t |-> "array"]

\* What is on the wire: a JSON text carrying a document, or some other text.
JsonText(doc) == [fmt |-> "json", doc |-> doc]

Garbage == [fmt |-> "text", doc |-> JNull]

RawBodies == {Garbage} \cup {JsonText(v) : v \in Objects \cup {JArray}}

\* A request without a body (OPTIONS, GET).
NoBody == [fmt |-> "none", doc |-> JNull]

(* ---------------------------- exceptions ------------------------------ *)

Exc(type, msg) == [type |-> type, msg |-> msg]

NoExc == Exc("none", "")

\* The exception classes below httpx.HTTPError that a call can raise.
HTTPErrorTypes == {"ConnectError", "ReadError"}

\* isinstance(e, httpx.HTTPError)
IsHTTPError(e) == e.type \in HTTPErrorTypes

\* response.json() / request.json(): the document of a JSON text.
IsJson(raw) == raw.fmt = "json"

Json(raw) == raw.doc

JSONDecodeError == Exc("JSONDecodeError", "Expecting value: line 1 column 1 (char 0)")

AttributeError == Exc("AttributeError", "'list' object has no attribute 'get'")

KeyError == Exc("KeyError", "'data'")

OSError == Exc("OSError", "[Errno 28] No space left on device")

(* --------------------------- the upstreams ---------------------------- *)

ConnectError == Exc("ConnectError", "All connection attempts failed")

ReadError == Exc("ReadError", "peer closed connection")

\* The documents an upstream answers a POST with, and a body that is no JSON.
Completion == [id |-> "cmpl-1", object |-> "chat.completion"]

ErrorDoc == [error |-> "invalid_request_error"]

Failed(e) == [kind |-> "error", exc |-> e, raw |-> Garbage]

Answered(raw) == [kind |-> "response", exc |-> NoExc, raw |-> raw]

\* No answer yet.
NoResponse == [kind |-> "none", exc |-> NoExc, raw |-> Garbage]

PostOutcomes ==
  {Failed(ConnectError)} \cup
  {Answered(raw) : raw \in {JsonText(Completion), JsonText(ErrorDoc), Garbage}}

\* A descriptor of the default upstream's catalog.
Entry(id) == [id |-> id, object |-> "model", created |-> 0, owned_by |-> "openai"]

RECURSIVE SeqsUpTo(_, _)
SeqsUpTo(S, n) ==
  IF n = 0 THEN {<<>>}
  ELSE LET shorter == SeqsUpTo(S, n - 1)
       IN shorter \cup {Append(s, x) : s \in shorter, x \in S}

CatalogIds == {"gpt-4", ALT_MODEL}

Catalogs ==
  {[object |-> "list", data |-> [i \in DOMAIN ids |-> Entry(ids[i])]] :
     ids \in SeqsUpTo(CatalogIds, MaxCatalog)}

ModelsOutcomes ==
  {Failed(ConnectError), Answered(Garbage), Answered(JsonText(ErrorDoc))} \cup
  {Answered(JsonText(c)) : c \in Catalogs}

\* The k-th chunk of an upstream stream: no two chunks of a stream are equal.
Chunk(k) == <<"data: ", k>>

\* What the next read of an open upstream stream gives.
ReadOutcomes == {"chunk", "close", "drop"}

\* What open(filename, 'w') and json.dump can do.
IoOutcomes == {"ok", "open_fails", "dump_fails"}

(* ------------------------------- state -------------------------------- *)

\* Two callers' requests, in flight together.
Reqs == {1, 2}

VARIABLES
  req,    \* req[r]: the inbound request r, its handler's locals and its effects
  files,  \* the logs directory: file name -> what the file holds
  clock   \* time.time(), in ticks

vars == <<req, files, clock>>

(* ----------------------------- responses ------------------------------ *)

NoOut == [status |-> 0, kind |-> "none", body |-> JNull, detail |-> <<>>, headers |-> <<>>]

\* A handler's return value, sent as a 200 JSON response.
JsonResponse(body, headers) ==
  [status |-> 200, kind |-> "json", body |-> body, detail |-> <<>>, headers |-> headers]

\* raise HTTPException(status_code, detail): detail is the text and, after it,
\* the str(e) it embeds.
HTTPException(status, detail) ==
  [status |-> status, kind |-> "http_error", body |-> JNull, detail |-> detail, headers |-> <<>>]

\* An exception that leaves the handler: the server answers with its generic
\* 500 page, which names no cause, and keeps serving.
ServerError ==
  [status |-> 500, kind |-> "server_error", body |-> JNull,
   detail |-> <<"Internal Server Error">>, headers |-> <<>>]

\* StreamingResponse(stream_response(), media_type="application/json")
StreamingResponse ==
  [status |-> 200, kind |-> "stream", body |-> JNull, detail |-> <<>>,
   headers |-> [ContentType |-> "application/json"]]

\* try: ... except httpx.HTTPError as e: raise HTTPException(500, f"{text}{str(e)}")
Except(text, e) ==
  IF IsHTTPError(e) THEN HTTPException(500, <<text, e.msg>>) ELSE ServerError

(* -------------------------- audit log writer -------------------------- *)

\* int(time.time()): the timestamp in seconds.
TimestampSeconds(clk) == clk \div (TicksPerMs * MsPerSec)

\* int(time.time() * 1000)
Timestamp(clk) == clk \div TicksPerMs

\* LOGS_DIR / f"{endpoint.replace('/', '_')}_{timestamp}.json"
Filename(endpoint, timestamp) == [stem |-> Replace(endpoint), ts |-> timestamp]

\* A log_data whose request and response are swapped.
LogDataSwapped(timestamp, endpoint, request_data, response_data) ==
  [timestamp |-> timestamp, endpoint |-> endpoint,
   request |-> response_data, response |-> request_data]

\* log_data = {"timestamp", "endpoint", "request", "response"}
LogData(timestamp, endpoint, request_data, response_data) ==
  [timestamp |-> timestamp, endpoint |-> endpoint,
   request |-> request_data, response |-> response_data]

\* with open(filename, 'w') as f: json.dump(log_data, f): open creates or
\* empties the file, dump fills it. `by` is the request the write is made for.
Dumped(fs, filename, log_data, by, io) ==
  CASE io = "open_fails" -> fs
    [] io = "dump_fails" ->
         (filename :> [by |-> by, data |-> log_data, complete |-> FALSE]) @@ fs
    [] OTHER ->
         (filename :> [by |-> by, data |-> log_data, complete |-> TRUE]) @@ fs

\* The AuditRecord a call of save_request_response at clock clk writes.
AuditRecord(clk, request_data, response_data, endpoint) ==
  [filename |-> Filename(endpoint, Timestamp(clk)),
   data |-> LogData(Timestamp(clk), endpoint, request_data, response_data),
   tick |-> clk]

\* The handler's view of the call: the record is written, or OSError is raised.
Saved(q, rec, io) ==
  IF io = "ok"
  THEN [q EXCEPT !.writes = Append(@, rec), !.trace = Append(@, "write")]
  ELSE [q EXCEPT !.trace = Append(@, "write_failed")]

\* A save that drops the record without a word.
save_request_response_dropped(q, fs, clk, by, request_data, response_data, endpoint, io) ==
  [q |-> q, files |-> fs, raised |-> NoExc]

\* A save that catches the failure of its own write and returns as if it had
\* written.
save_request_response_swallowing(q, fs, clk, by, request_data, response_data, endpoint, io) ==
  LET rec == AuditRecord(clk, request_data, response_data, endpoint)
  IN [q |-> Saved(q, rec, io),
      files |-> Dumped(fs, rec.filename, rec.data, by, io),
      raised |-> NoExc]

\* save_request_response(request_data, response_data, endpoint), called by the
\* handler of request `by` at clock clk: what becomes of the request and of
\* the logs directory, and the exception the call raises in its caller.
save_request_response(q, fs, clk, by, request_data, response_data, endpoint, io) ==
  LET rec == AuditRecord(clk, request_data, response_data, endpoint)
  IN [q |-> Saved(q, rec, io),
      files |-> Dumped(fs, rec.filename, rec.data, by, io),
      raised |-> IF io = "ok" THEN NoExc ELSE OSError]

(* -------------------------------- init -------------------------------- *)

Idle ==
  [pc |-> "idle", method |-> "none", path |-> <<>>, raw |-> NoBody,
   bodyRead |-> FALSE, body |-> JNull, base_url |-> "", api_key |-> "",
   mode |-> "none", calls |-> <<>>, response |-> NoResponse, raised |-> NoExc,
   writes |-> <<>>, out |-> NoOut,
   stream |-> "none", read |-> <<>>, sent |-> <<>>, trace |-> <<>>]

Init ==
  /\ req = [r \in Reqs |-> Idle]
  /\ files = <<>>
  /\ clock = 0

\* The handler of r ends: its response (or its failure) goes to the caller.
Return(q, out) ==
  [q EXCEPT !.pc = "done", !.out = out, !.trace = Append(@, "return")]


\* An except clause that sends the request to the upstream once more before
\* it gives up.
CaughtAndRetried(q, text, e) ==
  IF IsHTTPError(e) /\ Len(q.calls) = 1
  THEN [q EXCEPT !.calls = Append(@, q.calls[1]), !.trace = Append(@, "call"),
                 !.raised = e]
  ELSE Return([q EXCEPT !.raised = e], Except(text, e))

\* Exception e is raised inside the handler's try block.
Caught(q, text, e) == Return([q EXCEPT !.raised = e], Except(text, e))

\* Exception e is raised outside any try block.
Uncaught(q, e) == Return([q EXCEPT !.raised = e], ServerError)

\* Request r can arrive: requests are numbered in the order they arrive.
CanArrive(r) ==
  /\ req[r].pc = "idle"
  /\ \A earlier \in Reqs : earlier < r => req[earlier].pc # "idle"

\* The request as the router hands it to its handler.
Inbound(method, path, raw) ==
  [Idle EXCEPT !.pc = "start", !.method = method, !.path = path, !.raw = raw]

\* The wall clock advances.
Tick ==
  /\ clock < MaxClock
  /\ clock' = clock + 1
  /\ UNCHANGED <<req, files>>

(* ------------------------- OPTIONS /{path} ---------------------------- *)

\* available_methods with "POST" at every path.
AvailableMethodsPost(path) == <<"OPTIONS", "POST">>

\* available_methods: "OPTIONS", then "GET" for /models and "POST" otherwise.
AvailableMethods(path) ==
  <<"OPTIONS">> \o (IF path = PathModels THEN <<"GET">> ELSE <<"POST">>)

\* endpoint_info: a description under each method's name.
EndpointInfo(path) ==
  (IF path = PathModels
   THEN "GET" :> [description |-> "List available models"]
   ELSE "POST" :> [description |-> "Forward requests to OpenAI API and log interactions"])
  @@ ("OPTIONS" :> [description |-> "Get available methods and endpoint information"])

\* ", ".join(available_methods)
RECURSIVE Join(_)
Join(methods) ==
  IF Len(methods) <= 1 THEN methods
  ELSE <<Head(methods), ", ">> \o Join(Tail(methods))

OptionsResponse(path) ==
  JsonResponse(
    [methods |-> AvailableMethods(path),
     description |-> "OpenAI API Proxy with Request Tracking",
     endpoints |-> EndpointInfo(path)],
    [Allow |-> Join(AvailableMethods(path)),
     AccessControlAllowMethods |-> Join(AvailableMethods(path)),
     AccessControlAllowHeaders |-> "*"])

\* An OPTIONS handler that logs the probe like the other handlers log theirs.
options_request_logged(r) ==
  /\ CanArrive(r)
  /\ \E path \in Paths :
       LET saved == save_request_response(Inbound("OPTIONS", path, NoBody), files,
                                          clock, r, EmptyObject,
                                          OptionsResponse(path).body, path, "ok")
       IN /\ req' = [req EXCEPT ![r] = Return(saved.q, OptionsResponse(path))]
          /\ files' = saved.files
  /\ UNCHANGED clock

\* options_request: the whole handler, it never suspends.
options_request(r) ==
  /\ CanArrive(r)
  /\ \E path \in Paths :
       req' = [req EXCEPT ![r] =
         Return(Inbound("OPTIONS", path, NoBody), OptionsResponse(path))]
  /\ UNCHANGED <<files, clock>>

(* ---------------------------- GET /models ----------------------------- *)

Call(verb, url, credential) == [verb |-> verb, url |-> url, credential |-> credential]

\* The request is sent: "call" in the trace, the call among the request's calls.
Called(q, call) ==
  [q EXCEPT !.calls = Append(@, call), !.trace = Append(@, "call")]

\* The descriptor of the alternate upstream's model; created is int(time.time()).
AltDescriptor(clk) ==
  [id |-> ALT_MODEL, object |-> "model",
   created |-> clk \div (TicksPerMs * MsPerSec), owned_by |-> "system"]

\* The descriptor put in front of the catalog.
AugmentedInFront(catalog, clk) ==
  [catalog EXCEPT !.data = <<AltDescriptor(clk)>> \o @]

\* response_data["data"].append({...})
Augmented(catalog, clk) ==
  [catalog EXCEPT !.data = Append(@, AltDescriptor(clk))]

\* get_models up to `await client.get(...)`.
get_models_call(r) ==
  /\ CanArrive(r)
  /\ req' = [req EXCEPT ![r] =
       [Called(Inbound("GET", PathModels, NoBody),
               Call("GET", Url(OPENAI_BASE_URL, PathModels), OPENAI_API_KEY))
          EXCEPT !.pc = "await_upstream"]]
  /\ UNCHANGED <<files, clock>>

\* A get_models that writes the record first and appends the descriptor after.
get_models_response_saved_first(r) ==
  /\ req[r].pc = "await_upstream"
  /\ req[r].method = "GET"
  /\ \E o \in ModelsOutcomes, io \in IoOutcomes :
       LET text == "Error getting models: "
           q == [req[r] EXCEPT !.response = o, !.trace = Append(@, "response")]
       IN
       IF o.kind = "error"
       THEN /\ req' = [req EXCEPT ![r] = Caught(q, text, o.exc)]
            /\ files' = files
       ELSE IF ~IsJson(o.raw)
       THEN /\ req' = [req EXCEPT ![r] = Caught(q, text, JSONDecodeError)]
            /\ files' = files
       ELSE IF "data" \notin DOMAIN Json(o.raw)
       THEN /\ req' = [req EXCEPT ![r] = Caught(q, text, KeyError)]
            /\ files' = files
       ELSE LET saved == save_request_response(q, files, clock, r, EmptyObject,
                                               Json(o.raw), PathModels, io)
                response_data == Augmented(Json(o.raw), clock)
            IN /\ files' = saved.files
               /\ req' = [req EXCEPT ![r] =
                    IF saved.raised = NoExc
                    THEN Return(saved.q, JsonResponse(response_data, <<>>))
                    ELSE Caught(saved.q, text, saved.raised)]
  /\ UNCHANGED clock

\* get_models from the upstream's answer to the end of the handler.
get_models_response(r) ==
  /\ req[r].pc = "await_upstream"
  /\ req[r].method = "GET"
  /\ \E o \in ModelsOutcomes, io \in IoOutcomes :
       LET text == "Error getting models: "
           q == [req[r] EXCEPT !.response = o, !.trace = Append(@, "response")]
       IN
       IF o.kind = "error"
       THEN /\ req' = [req EXCEPT ![r] = Caught(q, text, o.exc)]
            /\ files' = files
       ELSE IF ~IsJson(o.raw)
       THEN /\ req' = [req EXCEPT ![r] = Caught(q, text, JSONDecodeError)]
            /\ files' = files
       ELSE IF "data" \notin DOMAIN Json(o.raw)
       THEN /\ req' = [req EXCEPT ![r] = Caught(q, text, KeyError)]
            /\ files' = files
       ELSE LET response_data == Augmented(Json(o.raw), clock)
                saved == save_request_response(q, files, clock, r, EmptyObject,
                                               response_data, PathModels, io)
            IN /\ files' = saved.files
               /\ req' = [req EXCEPT ![r] =
                    IF saved.raised = NoExc
                    THEN Return(saved.q, JsonResponse(response_data, <<>>))
                    ELSE Caught(saved.q, text, saved.raised)]
  /\ UNCHANGED clock

(* ---------------------------- POST /{path} ---------------------------- *)

\* A selector that takes the alternate base URL and keeps the default key.
UpstreamTargetDefaultKey(body) ==
  IF Get(body, "model") = JStr(ALT_MODEL)
  THEN [base_url |-> GROQ_BASE_URL, api_key |-> OPENAI_API_KEY]
  ELSE [base_url |-> OPENAI_BASE_URL, api_key |-> OPENAI_API_KEY]

\* The upstream selector: base_url and api_key by body.get("model").
UpstreamTarget(body) ==
  IF Get(body, "model") = JStr(ALT_MODEL)
  THEN [base_url |-> GROQ_BASE_URL, api_key |-> GROQ_API_KEY]
  ELSE [base_url |-> OPENAI_BASE_URL, api_key |-> OPENAI_API_KEY]

\* path == "chat/completions" and body.get("stream") is True
IsStreaming(path, body) ==
  path = PathChat /\ IsTrue(Get(body, "stream"))

\* A placeholder that carries what the upstream sends first.
StreamPlaceholderContent == [stream |-> JTrue, message |-> Chunk(1)]

\* The response field of a streaming request's AuditRecord.
StreamPlaceholder == [stream |-> JTrue, message |-> "streaming response"]

MethodNotAllowed ==
  HTTPException(405, <<"Method not allowed. Use GET for /models endpoint">>)

\* proxy_request with the body read before the path is looked at.
proxy_request_start_body_first(r) ==
  /\ CanArrive(r)
  /\ \E path \in Paths, raw \in RawBodies :
       req' = [req EXCEPT ![r] =
         IF ~IsJson(raw)
         THEN Uncaught([Inbound("POST", path, raw) EXCEPT !.bodyRead = TRUE],
                       JSONDecodeError)
         ELSE IF path = PathModels
         THEN Return([Inbound("POST", path, raw) EXCEPT !.bodyRead = TRUE],
                     MethodNotAllowed)
         ELSE [Inbound("POST", path, raw) EXCEPT !.pc = "await_body"]]
  /\ UNCHANGED <<files, clock>>

\* proxy_request up to `await request.json()`.
proxy_request_start(r) ==
  /\ CanArrive(r)
  /\ \E path \in Paths, raw \in RawBodies :
       req' = [req EXCEPT ![r] =
         IF path = PathModels
         THEN Return(Inbound("POST", path, raw), MethodNotAllowed)
         ELSE [Inbound("POST", path, raw) EXCEPT !.pc = "await_body"]]
  /\ UNCHANGED <<files, clock>>

\* proxy_request from the body's arrival to the next suspension: the return of
\* the StreamingResponse (streaming mode) or `await client.post(...)` (buffered).
proxy_request_body(r) ==
  /\ req[r].pc = "await_body"
  /\ \E io \in IoOutcomes :
       LET q0 == [req[r] EXCEPT !.bodyRead = TRUE, !.trace = Append(@, "body")]
           body == Json(q0.raw)
           target == UpstreamTarget(body)
           q == [q0 EXCEPT !.body = body, !.base_url = target.base_url,
                           !.api_key = target.api_key]
       IN
       IF ~IsJson(q0.raw)
       THEN /\ req' = [req EXCEPT ![r] = Uncaught(q0, JSONDecodeError)]
            /\ files' = files
       ELSE IF body.t # "object"
       THEN /\ req' = [req EXCEPT ![r] = Uncaught([q0 EXCEPT !.body = body], AttributeError)]
            /\ files' = files
       ELSE IF IsStreaming(q.path, body)
       THEN LET saved == save_request_response([q EXCEPT !.mode = "streaming"],
                                               files, clock, r, body,
                                               StreamPlaceholder, q.path, io)
            IN /\ files' = saved.files
               /\ req' = [req EXCEPT ![r] =
                    IF saved.raised = NoExc
                    THEN [saved.q EXCEPT !.pc = "stream_open", !.out = StreamingResponse,
                                         !.stream = "pending",
                                         !.trace = Append(@, "return")]
                    ELSE Uncaught(saved.q, saved.raised)]
       ELSE /\ req' = [req EXCEPT ![r] =
                 [Called([q EXCEPT !.mode = "buffered"],
                         Call("POST", Url(q.base_url, q.path), q.api_key))
                    EXCEPT !.pc = "await_upstream"]]
            /\ files' = files
  /\ UNCHANGED clock

\* A buffered mode that answers the caller first and writes the record after.
proxy_request_response_answer_first(r) ==
  /\ req[r].pc = "await_upstream"
  /\ req[r].method = "POST"
  /\ \E o \in PostOutcomes, io \in IoOutcomes :
       LET text == "Error forwarding request: "
           q == [req[r] EXCEPT !.response = o, !.trace = Append(@, "response")]
       IN
       IF o.kind = "error"
       THEN /\ req' = [req EXCEPT ![r] = Caught(q, text, o.exc)]
            /\ files' = files
       ELSE IF ~IsJson(o.raw)
       THEN /\ req' = [req EXCEPT ![r] = Caught(q, text, JSONDecodeError)]
            /\ files' = files
       ELSE LET response_data == Json(o.raw)
                answered == Return(q, JsonResponse(response_data, <<>>))
                saved == save_request_response(answered, files, clock, r, q.body,
                                               response_data, q.path, io)
            IN /\ files' = saved.files
               /\ req' = [req EXCEPT ![r] = saved.q]
  /\ UNCHANGED clock

\* proxy_request, buffered mode, from the upstream's answer to the end.
proxy_request_response(r) ==
  /\ req[r].pc = "await_upstream"
  /\ req[r].method = "POST"
  /\ \E o \in PostOutcomes, io \in IoOutcomes :
       LET text == "Error forwarding request: "
           q == [req[r] EXCEPT !.response = o, !.trace = Append(@, "response")]
       IN
       IF o.kind = "error"
       THEN /\ req' = [req EXCEPT ![r] = Caught(q, text, o.exc)]
            /\ files' = files
       ELSE IF ~IsJson(o.raw)
       THEN /\ req' = [req EXCEPT ![r] = Caught(q, text, JSONDecodeError)]
            /\ files' = files
       ELSE LET response_data == Json(o.raw)
                saved == save_request_response(q, files, clock, r, q.body,
                                               response_data, q.path, io)
            IN /\ files' = saved.files
               /\ req' = [req EXCEPT ![r] =
                    IF saved.raised = NoExc
                    THEN Return(saved.q, JsonResponse(response_data, <<>>))
                    ELSE Caught(saved.q, text, saved.raised)]
  /\ UNCHANGED clock

(* ------------------------- stream_response ---------------------------- *)

\* A first pull whose connection failure is answered like the buffered one:
\* with the 500 of the except clause.
stream_response_open_answering_500(r) ==
  /\ req[r].pc = "stream_open"
  /\ \E connected \in BOOLEAN :
       LET q == Called(req[r], Call("POST", Url(req[r].base_url, req[r].path),
                                    req[r].api_key))
       IN req' = [req EXCEPT ![r] =
            IF connected
            THEN [q EXCEPT !.pc = "stream_read", !.stream = "open"]
            ELSE [Caught(q, "Error forwarding request: ", ConnectError)
                    EXCEPT !.stream = "failed"]]
  /\ UNCHANGED <<files, clock>>

\* The first pull of the generator: client.stream("POST", ...) connects.
stream_response_open(r) ==
  /\ req[r].pc = "stream_open"
  /\ \E connected \in BOOLEAN :
       LET q == Called(req[r], Call("POST", Url(req[r].base_url, req[r].path),
                                    req[r].api_key))
       IN req' = [req EXCEPT ![r] =
            IF connected
            THEN [q EXCEPT !.pc = "stream_read", !.stream = "open"]
            ELSE [q EXCEPT !.pc = "done", !.stream = "failed", !.raised = ConnectError]]
  /\ UNCHANGED <<files, clock>>

\* A generator that reads on while the caller has not taken the chunk before.
stream_response_read_ahead(r) ==
  /\ req[r].pc \in {"stream_read", "stream_yield"}
  /\ \E o \in ReadOutcomes :
       /\ o = "chunk" => Len(req[r].read) < MaxChunks
       /\ req' = [req EXCEPT ![r] =
            CASE o = "chunk" ->
                   [@ EXCEPT !.pc = "stream_yield",
                             !.read = Append(@, Chunk(Len(@) + 1)),
                             !.trace = Append(@, "read")]
              [] o = "close" -> [@ EXCEPT !.pc = "done", !.stream = "closed"]
              [] OTHER -> [@ EXCEPT !.pc = "done", !.stream = "dropped",
                                    !.raised = ReadError]]
  /\ UNCHANGED <<files, clock>>

\* `async for chunk in upstream_response.aiter_text()`: the next chunk, the
\* end of the upstream's stream, or a connection that drops.
stream_response_read(r) ==
  /\ req[r].pc = "stream_read"
  /\ \E o \in ReadOutcomes :
       /\ o = "chunk" => Len(req[r].read) < MaxChunks
       /\ req' = [req EXCEPT ![r] =
            CASE o = "chunk" ->
                   [@ EXCEPT !.pc = "stream_yield",
                             !.read = Append(@, Chunk(Len(@) + 1)),
                             !.trace = Append(@, "read")]
              [] o = "close" -> [@ EXCEPT !.pc = "done", !.stream = "closed"]
              [] OTHER -> [@ EXCEPT !.pc = "done", !.stream = "dropped",
                                    !.raised = ReadError]]
  /\ UNCHANGED <<files, clock>>

\* A `yield` that hands on the first chunk read, whatever was read last.
stream_response_yield_first(r) ==
  /\ req[r].pc = "stream_yield"
  /\ req' = [req EXCEPT ![r] =
       [@ EXCEPT !.pc = "stream_read",
                 !.sent = Append(@, req[r].read[1]),
                 !.trace = Append(@, "send")]]
  /\ UNCHANGED <<files, clock>>

\* `yield chunk`: the chunk just read goes to the caller, who pulls again.
stream_response_yield(r) ==
  /\ req[r].pc = "stream_yield"
  /\ req' = [req EXCEPT ![r] =
       [@ EXCEPT !.pc = "stream_read",
                 !.sent = Append(@, req[r].read[Len(req[r].read)]),
                 !.trace = Append(@, "send")]]
  /\ UNCHANGED <<files, clock>>

\* The caller stops consuming: the generator is never pulled again.
Disconnect(r) ==
  /\ req[r].pc \in {"stream_open", "stream_read", "stream_yield"}
  /\ req' = [req EXCEPT ![r] = [@ EXCEPT !.pc = "done", !.stream = "cancelled"]]
  /\ UNCHANGED <<files, clock>>

(* ------------------------------- system ------------------------------- *)

Next ==
  \/ Tick
  \/ \E r \in Reqs : options_request(r)
  \/ \E r \in Reqs : get_models_call(r)
  \/ \E r \in Reqs : get_models_response(r)
  \/ \E r \in Reqs : proxy_request_start(r)
  \/ \E r \in Reqs : proxy_request_body(r)
  \/ \E r \in Reqs : proxy_request_response(r)
  \/ \E r \in Reqs : stream_response_open(r)
  \/ \E r \in Reqs : stream_response_read(r)
  \/ \E r \in Reqs : stream_response_yield(r)
  \/ \E r \in Reqs : Disconnect(r)

Spec == Init /\ [][Next]_vars

\* The event loop runs a handler that can run: an answer the upstream has for
\* a request is taken, a caller who pulls is served. The caller is free to
\* leave (Disconnect) and requests are free not to come.
Fairness ==
  \A r \in Reqs :
    /\ WF_vars(stream_response_open(r))
    /\ WF_vars(stream_response_read(r))
    /\ WF_vars(stream_response_yield(r))

FairSpec == Spec /\ Fairness

(* ------------------------------ vocabulary ---------------------------- *)

\* The elements of a sequence.
Range(seq) == {seq[i] : i \in DOMAIN seq}

Done(r) == req[r].pc = "done"

\* A POST that the forwarding engine does not reject by its path.
Proxied(r) == req[r].method = "POST" /\ req[r].path # PathModels

\* A POST that reached the forwarding engine: its mode was chosen.
Forwarded(r) == req[r].mode \in {"buffered", "streaming"}

\* The number of AuditRecords written for request r.
Written(r) == Len(req[r].writes)

\* The caller of r was answered with a response rather than with an error.
Answered200(r) == req[r].out.kind \in {"json", "stream"}

WriteFailed(r) == \E i \in DOMAIN req[r].trace : req[r].trace[i] = "write_failed"

(* -------------------------------- claims ------------------------------ *)

\* C1 (as stated): every POST /{path}, path # "models", that reaches the
\* forwarding engine has exactly one AuditRecord written by the time its
\* processing ends, whatever the outcome: buffered success, upstream transport
\* or parse error, or streaming.
C1_ExactlyOneRecordWhateverOutcome ==
  \A r \in Reqs :
    Forwarded(r) /\ Done(r) /\ ~WriteFailed(r) => Written(r) = 1

\* C1 (amended): a POST /{path}, path # "models", never has more than one
\* AuditRecord written; when its processing has ended it has exactly one if
\* the caller was answered with the upstream's JSON or with a stream, and
\* none if the caller was answered with an error.
C1_OneRecordIffAnswered ==
  \A r \in Reqs :
    Proxied(r) =>
      /\ Written(r) <= 1
      /\ Done(r) => (Written(r) = 1 <=> Answered200(r))

\* C1 witness: one request ended in a buffered success with its record, the
\* other in an upstream transport error with none.
C1_Witness ==
  \E r, e \in Reqs :
    /\ Proxied(r) /\ Done(r) /\ req[r].mode = "buffered"
    /\ req[r].out.kind = "json" /\ Written(r) = 1
    /\ Proxied(e) /\ Done(e) /\ req[e].mode = "buffered"
    /\ req[e].out.kind = "http_error" /\ Written(e) = 0

\* C2: a non-streaming POST that succeeds has exactly one AuditRecord written,
\* whose request field is the inbound body and whose response field is the
\* JSON value returned to the caller.
C2_BufferedRecordIsWhatWasReturned ==
  \A r \in Reqs :
    req[r].method = "POST" /\ req[r].mode = "buffered" /\ req[r].out.kind = "json" =>
      /\ Written(r) = 1
      /\ req[r].writes[1].data.request = req[r].raw.doc
      /\ req[r].writes[1].data.response = req[r].out.body
      /\ req[r].writes[1].data.endpoint = req[r].path
      /\ req[r].writes[1].filename \in DOMAIN files

\* C2 witness: a buffered POST returned the upstream's document and wrote it.
C2_Witness ==
  \E r \in Reqs :
    /\ req[r].method = "POST" /\ req[r].mode = "buffered" /\ Done(r)
    /\ req[r].out.kind = "json" /\ req[r].out.body = [error |-> "invalid_request_error"]
    /\ req[r].raw.doc.model.t = "str"
    /\ Written(r) = 1

\* C3: a streaming POST has exactly one AuditRecord written, it is written
\* before the first chunk is delivered to the caller, and its response field
\* is the fixed placeholder {"stream": true, "message": "streaming response"},
\* never any upstream content.
C3_StreamRecordBeforeFirstChunk ==
  \A r \in Reqs :
    req[r].mode = "streaming" =>
      /\ Written(r) <= 1
      /\ \A i \in DOMAIN req[r].writes :
           /\ req[r].writes[i].data.response =
                [stream |-> [t |-> "bool", v |-> "true"], message |-> "streaming response"]
           /\ req[r].writes[i].data.request = req[r].raw.doc
      /\ (req[r].out.kind = "stream" \/ req[r].sent # <<>> \/ req[r].read # <<>>) =>
           Written(r) = 1
      /\ \A i \in DOMAIN req[r].trace :
           req[r].trace[i] = "send" =>
             \E j \in 1 .. i - 1 : req[r].trace[j] = "write"

\* C3 witness: a streaming request has delivered a chunk to its caller.
C3_Witness ==
  \E r \in Reqs :
    /\ req[r].mode = "streaming" /\ req[r].out.kind = "stream"
    /\ Len(req[r].sent) >= 1 /\ Written(r) = 1

\* C4: the upstream call of a POST goes to the alternate upstream's base URL
\* with the alternate credential if and only if body.model is
\* "qwen-2.5-coder-32b"; for any other model, or none, it goes to the default
\* upstream's base URL with the default credential. Base URL and credential
\* of one call belong to the same upstream.
C4_UpstreamChosenByModel ==
  \A r \in Reqs :
    req[r].method = "POST" =>
      \A i \in DOMAIN req[r].calls :
        LET call == req[r].calls[i]
            alt == req[r].raw.doc.model = [t |-> "str", v |-> "qwen-2.5-coder-32b"]
        IN /\ call.verb = "POST"
           /\ Tail(Tail(call.url)) = req[r].path
           /\ alt => call.url[1] = "https://api.groq.com/openai/v1"
                     /\ call.credential = "env:GROQ_API_KEY"
           /\ ~alt => call.url[1] = "https://api.openai.com/v1"
                      /\ call.credential = "env:OPENAI_API_KEY"

\* C4 witness: one POST went to the alternate upstream, another, whose body
\* has no model, to the default one.
C4_Witness ==
  \E r, d \in Reqs :
    /\ req[r].method = "POST" /\ req[r].calls # <<>>
    /\ req[r].raw.doc.model = JStr(ALT_MODEL)
    /\ req[r].calls[1].url[1] = GROQ_BASE_URL
    /\ req[d].method = "POST" /\ req[d].calls # <<>>
    /\ req[d].raw.doc.model = Absent
    /\ req[d].calls[1].credential = OPENAI_API_KEY

\* C5: the forwarding engine uses streaming mode if and only if the path is
\* "chat/completions" and body.stream is the boolean true; for every other
\* path and for stream absent, false, 1 or "true" it uses buffered mode.
C5_StreamingIffChatAndTrue ==
  \A r \in Reqs :
    Forwarded(r) =>
      (req[r].mode = "streaming" <=>
         /\ req[r].path = <<"chat", "/", "completions">>
         /\ req[r].raw.doc.stream = [t |-> "bool", v |-> "true"])

\* C5 witness: a chat/completions POST with stream: 1 was forwarded buffered
\* while one with stream: true is being streamed.
C5_Witness ==
  \E r, b \in Reqs :
    /\ req[r].mode = "streaming" /\ req[r].path = PathChat
    /\ req[b].mode = "buffered" /\ req[b].path = PathChat
    /\ req[b].raw.doc.stream = JOne

\* C6: POST /models always ends in 405 "method not allowed", whatever the
\* body, also one that is not well-formed JSON: the rejection is decided
\* before the body is read.
C6_PostModelsIs405 ==
  \A r \in Reqs :
    req[r].method = "POST" /\ req[r].path = PathModels =>
      /\ Done(r)
      /\ req[r].out.status = 405
      /\ req[r].out.kind = "http_error"
      /\ ~req[r].bodyRead

\* C6 witness: a POST /models whose body is not JSON was answered 405.
C6_Witness ==
  \E r \in Reqs :
    /\ req[r].method = "POST" /\ req[r].path = PathModels
    /\ req[r].raw = Garbage /\ req[r].out.status = 405

\* C7: in buffered mode, when the upstream call fails with a transport error
\* or the upstream's response is not parseable as JSON, the caller receives a
\* 500 whose message embeds the underlying cause, and no AuditRecord is
\* written for the request.
C7_FailureIs500WithCauseAndNoRecord ==
  \A r \in Reqs :
    /\ req[r].method = "POST" /\ req[r].mode = "buffered" /\ Done(r)
    /\ req[r].raised.type \in {"ConnectError", "JSONDecodeError"}
    => /\ req[r].out.status = 500
       /\ req[r].raised.msg \in Range(req[r].out.detail)
       /\ Written(r) = 0

\* C8 (as stated): every successful GET /models response contains exactly one
\* entry whose id is "qwen-2.5-coder-32b", and it is the last element of the
\* data list, after the upstream's entries in their original order, also when
\* the upstream's catalog already lists that id.
C8_ExactlyOneAltEntryAndLast ==
  \A r \in Reqs :
    req[r].method = "GET" /\ req[r].out.kind = "json" =>
      LET data == req[r].out.body.data
          upstream == req[r].response.raw.doc.data
      IN /\ Cardinality({i \in DOMAIN data : data[i].id = "qwen-2.5-coder-32b"}) = 1
         /\ data[Len(data)].id = "qwen-2.5-coder-32b"
         /\ SubSeq(data, 1, Len(data) - 1) = upstream

\* C8 (amended): the data list of every successful GET /models response is
\* the upstream's entries in their original order followed by one appended
\* descriptor whose id is "qwen-2.5-coder-32b": that descriptor is last, and
\* the list holds one entry of that id more than the upstream's catalog does.
C8_AltDescriptorAppendedLast ==
  \A r \in Reqs :
    req[r].method = "GET" /\ req[r].out.kind = "json" =>
      LET data == req[r].out.body.data
          upstream == req[r].response.raw.doc.data
          alts(list) == {i \in DOMAIN list : list[i].id = "qwen-2.5-coder-32b"}
      IN /\ Len(data) = Len(upstream) + 1
         /\ SubSeq(data, 1, Len(upstream)) = upstream
         /\ data[Len(data)].id = "qwen-2.5-coder-32b"
         /\ data[Len(data)].object = "model"
         /\ data[Len(data)].owned_by = "system"
         /\ Cardinality(alts(data)) = Cardinality(alts(upstream)) + 1

\* C8 witness: GET /models succeeded on a catalog that lists the alternate
\* model's id itself, next to another model.
C8_Witness ==
  \E r \in Reqs :
    /\ req[r].method = "GET" /\ req[r].out.kind = "json"
    /\ Len(req[r].out.body.data) = 3
    /\ req[r].out.body.data[1].id = ALT_MODEL
    /\ req[r].out.body.data[2].id = "gpt-4"

\* C9: the same logical request issued twice, its two audit writes at least
\* one millisecond of wall-clock time apart, gives two distinct AuditRecords
\* under distinct names; the second write does not overwrite the first.
C9_SameRequestTwiceTwoRecords ==
  \A r, n \in Reqs :
    /\ r # n
    /\ req[r].method = req[n].method
    /\ req[r].path = req[n].path
    /\ req[r].raw = req[n].raw
    /\ Written(r) = 1 /\ Written(n) = 1
    /\ req[n].writes[1].tick - req[r].writes[1].tick >= TicksPerMs
    => /\ req[r].writes[1].filename # req[n].writes[1].filename
       /\ req[r].writes[1].data # req[n].writes[1].data
       /\ req[r].writes[1].filename \in DOMAIN files
       /\ files[req[r].writes[1].filename].by # n
       /\ req[n].writes[1].filename \in DOMAIN files
       /\ files[req[n].writes[1].filename].by # r

\* C9 witness: two equal POST requests were answered with the same document,
\* their records written a millisecond apart.
C9_Witness ==
  \E r, n \in Reqs :
    /\ r # n
    /\ req[r].method = "POST" /\ req[n].method = "POST"
    /\ req[r].path = req[n].path /\ req[r].raw = req[n].raw
    /\ req[r].out.kind = "json" /\ req[r].out = req[n].out
    /\ Written(r) = 1 /\ Written(n) = 1
    /\ req[n].writes[1].tick - req[r].writes[1].tick >= TicksPerMs

\* C10: OPTIONS returns the method set {OPTIONS, GET} for the path "models"
\* and {OPTIONS, POST} for every other path; the body's methods list, the
\* keys of the endpoints map and the Allow header name the same set.
C10_OptionsNamesOneMethodSet ==
  \A r \in Reqs :
    req[r].method = "OPTIONS" /\ Done(r) =>
      LET expected == IF req[r].path = <<"models">> THEN {"OPTIONS", "GET"}
                      ELSE {"OPTIONS", "POST"}
          allow == req[r].out.headers.Allow
      IN /\ req[r].out.status = 200
         /\ Range(req[r].out.body.methods) = expected
         /\ Len(req[r].out.body.methods) = 2
         /\ DOMAIN req[r].out.body.endpoints = expected
         /\ {allow[i] : i \in {j \in DOMAIN allow : j % 2 = 1}} = expected
         /\ \A j \in DOMAIN allow : j % 2 = 0 => allow[j] = ", "
         /\ Len(allow) = 3

\* C10 witness: OPTIONS /models and OPTIONS /chat/completions were answered.
C10_Witness ==
  \E r, p \in Reqs :
    /\ req[r].method = "OPTIONS" /\ Done(r) /\ req[r].path = PathModels
    /\ req[p].method = "OPTIONS" /\ Done(p) /\ req[p].path = PathChat


\* C11: in streaming mode the chunks delivered to the caller are at every
\* moment a prefix of the chunks the upstream produced, in order, none
\* altered, dropped or duplicated; when the upstream closes normally and the
\* caller keeps consuming, the caller's stream ends, and it has then delivered
\* exactly the upstream's sequence.
C11_DeliveredIsPrefixAndEndsComplete ==
  /\ [](\A r \in Reqs :
          /\ Len(req[r].sent) <= Len(req[r].read)
          /\ \A i \in DOMAIN req[r].sent : req[r].sent[i] = <<"data: ", i>>
          /\ \A i \in DOMAIN req[r].read : req[r].read[i] = <<"data: ", i>>
          /\ req[r].stream = "closed" => req[r].sent = req[r].read)
  /\ \A r \in Reqs :
       (req[r].stream = "open") ~>
         (req[r].pc = "done" /\ req[r].stream \in {"closed", "dropped", "cancelled"})

\* C11 witness: the upstream closed after its last chunk and the caller has
\* received them all.
C11_Witness ==
  \E r \in Reqs :
    /\ req[r].stream = "closed" /\ req[r].pc = "done"
    /\ Len(req[r].sent) = MaxChunks
    /\ req[r].sent = req[r].read


\* C12: a request whose audit write failed with an I/O error ends in an
\* internal error: in buffered mode, in streaming mode and for GET /models,
\* a caller who got a successful response or a streamed chunk is a caller
\* whose request has its record written.
C12_NoAnswerWithoutRecord ==
  \A r \in Reqs :
    /\ ("write_failed" \in Range(req[r].trace)) =>
         /\ req[r].pc = "done"
         /\ req[r].out.status = 500
         /\ req[r].out.kind = "server_error"
         /\ req[r].sent = <<>>
         /\ req[r].writes = <<>>
    /\ ( /\ req[r].method \in {"GET", "POST"}
         /\ \/ req[r].out.kind \in {"json", "stream"}
            \/ req[r].sent # <<>> ) =>
         /\ Len(req[r].writes) = 1
         /\ "write_failed" \notin Range(req[r].trace)

\* C12 witness: the audit write of a streaming request failed and its caller
\* has the 500, while another request was answered with its record written.
C12_Witness ==
  \E r, o \in Reqs :
    /\ req[r].mode = "streaming"
    /\ "write_failed" \in Range(req[r].trace)
    /\ req[r].out.status = 500
    /\ req[o].method = "GET" /\ req[o].out.kind = "json"
    /\ Len(req[o].writes) = 1


\* C13: under any interleaving of concurrent requests, no step replaces the
\* AuditRecord one request has persisted by the write of another request,
\* two requests for one endpoint (or for endpoints that differ by '/' against
\* '_') writing within one millisecond included.
C13_NoWriteOverwritesAnotherRecord ==
  [][\A name \in DOMAIN files :
       files[name].complete =>
         /\ name \in DOMAIN files'
         /\ files'[name].by = files[name].by
         /\ files'[name].data = files[name].data]_vars


\* C14: the proxy never retries: each inbound request causes at most one HTTP
\* request to an upstream, also once a buffered call or the call of
\* GET /models has failed in transport, and once a stream has dropped.
C14_AtMostOneUpstreamCall ==
  \A r \in Reqs :
    /\ Len(req[r].calls) <= 1
    /\ Len(SelectSeq(req[r].trace, LAMBDA e : e = "call")) <= 1
    /\ (req[r].pc = "done" /\ req[r].raised.type \in {"ConnectError", "ReadError"}) =>
         Len(req[r].calls) = 1

\* C14 witness: a buffered call failed in transport and a stream dropped, both
\* requests are over, and each made one call.
C14_Witness ==
  \E r, o \in Reqs :
    /\ req[r].pc = "done" /\ req[r].mode = "buffered"
    /\ req[r].raised.type \in {"ConnectError", "ReadError"}
    /\ req[r].out.status = 500
    /\ Len(req[r].calls) = 1
    /\ req[o].pc = "done" /\ req[o].stream = "dropped"
    /\ Len(req[o].calls) = 1


\* C15: in buffered mode the upstream's response is received and parsed
\* first, the AuditRecord is written next, and the response is returned to
\* the caller last: no write before the upstream's response, no answer to the
\* caller before the completed write.
C15_BufferedResponseThenWriteThenReturn ==
  \A r \in Reqs :
    req[r].mode = "buffered" =>
      LET t == req[r].trace IN
      /\ \A i, j \in DOMAIN t :
           /\ (t[i] = "response" /\ t[j] = "write") => i < j
           /\ (t[i] = "write" /\ t[j] = "return") => i < j
           /\ (t[i] = "response" /\ t[j] = "return") => i < j
      /\ ("write" \in Range(t)) =>
           /\ "response" \in Range(t)
           /\ req[r].response.kind = "response"
           /\ req[r].writes[1].data.response = Json(req[r].response.raw)
      /\ req[r].out.kind = "json" =>
           /\ "write" \in Range(t)
           /\ t[Len(t)] = "return"

\* C15 witness: a buffered request was answered with the upstream's JSON.
C15_Witness ==
  \E r \in Reqs :
    /\ req[r].mode = "buffered"
    /\ req[r].out.kind = "json"
    /\ req[r].out.body = req[r].writes[1].data.response
    /\ {"response", "write", "return"} \subseteq Range(req[r].trace)


\* C16: an OPTIONS request, for any path, and a POST /models that is rejected
\* leave the audit log as it was and make no upstream call: the step that
\* handles one changes no file, and such a request has no call, no write and
\* no file of its own at any time.
C16_OptionsAndRejectedPostTouchNothing ==
  /\ [](\A r \in Reqs :
          (\/ req[r].method = "OPTIONS"
           \/ req[r].method = "POST" /\ req[r].path = <<"models">>) =>
            /\ req[r].pc = "done"
            /\ req[r].calls = <<>>
            /\ req[r].writes = <<>>
            /\ {"call", "write", "write_failed"} \cap Range(req[r].trace) = {}
            /\ \A name \in DOMAIN files : files[name].by # r)
  /\ [][(\E r \in Reqs :
           /\ req[r].pc = "idle"
           /\ \/ req'[r].method = "OPTIONS"
              \/ req'[r].method = "POST" /\ req'[r].path = <<"models">>)
        => files' = files]_vars

\* C16 witness: an OPTIONS request and a rejected POST /models have both been
\* answered.
C16_Witness ==
  \E r, o \in Reqs :
    /\ req[r].method = "OPTIONS" /\ req[r].out.status = 200
    /\ req[r].path = <<"chat", "/", "completions">>
    /\ req[o].method = "POST" /\ req[o].path = <<"models">>
    /\ req[o].out.status = 405
    /\ files = <<>>


\* C17: GET /models that succeeds has written exactly one AuditRecord, with
\* endpoint "models", an empty request object, and as response the augmented
\* catalog the caller is given. When the upstream call fails the caller gets
\* a 500, no record is written, and the server goes on taking requests.
C17_GetModelsRecordOrError ==
  \A r \in Reqs :
    req[r].method = "GET" =>
      /\ req[r].out.kind = "json" =>
           /\ Len(req[r].writes) = 1
           /\ req[r].writes[1].data.endpoint = <<"models">>
           /\ req[r].writes[1].data.request = [t |-> "object"]
           /\ req[r].writes[1].data.response = req[r].out.body
           /\ req[r].out.body.data[Len(req[r].out.body.data)].id = "qwen-2.5-coder-32b"
           /\ Len(req[r].out.body.data) = Len(Json(req[r].response.raw).data) + 1
      /\ (req[r].pc = "done" /\ req[r].response.kind = "error") =>
           /\ req[r].out.status = 500
           /\ req[r].out.kind = "http_error"
           /\ req[r].writes = <<>>
           /\ \A name \in DOMAIN files : files[name].by # r
           /\ \A o \in Reqs : CanArrive(o) => ENABLED get_models_call(o)
      /\ (req[r].pc = "done" /\ req[r].out.kind # "json") =>
           /\ req[r].out.status = 500
           /\ req[r].writes = <<>>

\* C17 witness: one GET /models failed at the upstream and was answered with
\* a 500; the server answered another one with the catalog and wrote its
\* record.
C17_Witness ==
  /\ req[1].method = "GET" /\ req[1].response.kind = "error"
  /\ req[1].out.status = 500 /\ req[1].writes = <<>>
  /\ req[2].method = "GET" /\ req[2].out.kind = "json"
  /\ Len(req[2].writes) = 1
  /\ Len(req[2].out.body.data) = MaxCatalog + 1


\* C18: streaming is pull-based: at every moment the chunks read from the
\* upstream are as many as the chunks delivered to the caller, or one more;
\* once the caller has stopped consuming, nothing more is read from the
\* upstream and no call is made.
C18_ReadsAtMostOneAheadAndStopWithCaller ==
  /\ [](\A r \in Reqs :
          /\ Len(req[r].read) - Len(req[r].sent) \in {0, 1}
          /\ Len(SelectSeq(req[r].trace, LAMBDA e : e = "read"))
               - Len(SelectSeq(req[r].trace, LAMBDA e : e = "send")) \in {0, 1})
  /\ [][\A r \in Reqs :
          req[r].stream = "cancelled" =>
            /\ req'[r].read = req[r].read
            /\ req'[r].sent = req[r].sent
            /\ req'[r].calls = req[r].calls]_vars

\* C18 witness: the caller left while the generator held a chunk it had read
\* and not yet delivered; time went on after that.
C18_Witness ==
  \E r \in Reqs :
    /\ req[r].stream = "cancelled"
    /\ Len(req[r].read) = MaxChunks
    /\ Len(req[r].sent) = MaxChunks - 1
    /\ clock > req[r].writes[1].tick


\* C19: in streaming mode the AuditRecord is written before the connection to
\* the upstream is opened at all: the placeholder record is there when the
\* upstream turns out unreachable and when the caller never takes a chunk,
\* and a connection failure in streaming mode never reaches the caller as
\* a 500.
C19_StreamRecordBeforeConnection ==
  \A r \in Reqs :
    req[r].mode = "streaming" =>
      LET t == req[r].trace IN
      /\ \A i, j \in DOMAIN t : (t[i] = "write" /\ t[j] = "call") => i < j
      /\ req[r].calls # <<>> =>
           /\ Len(req[r].writes) = 1
           /\ req[r].writes[1].data.response =
                [stream |-> [t |-> "bool", v |-> "true"],
                 message |-> "streaming response"]
           /\ req[r].writes[1].data.request = req[r].body
      /\ req[r].stream \in {"failed", "cancelled"} =>
           /\ Len(req[r].writes) = 1
           /\ req[r].out.status = 200
           /\ req[r].out.kind = "stream"
      /\ req[r].stream = "failed" =>
           /\ req[r].raised.type = "ConnectError"
           /\ req[r].sent = <<>>
           /\ req[r].out.status # 500

\* C19 witness: one streaming request found its upstream unreachable, the
\* caller of another left before the connection was tried; both have their
\* placeholder record and a 200.
C19_Witness ==
  \E r, o \in Reqs :
    /\ req[r].stream = "failed" /\ req[r].pc = "done"
    /\ Len(req[r].calls) = 1 /\ Len(req[r].writes) = 1
    /\ req[r].out.status = 200
    /\ req[o].stream = "cancelled" /\ req[o].calls = <<>>
    /\ Len(req[o].writes) = 1

====
